---- MODULE Spec2Model ----
(***************************************************************************)
(* Model of latency.cpp: the host program main, the kernel k and the       *)
(* device routine __smid that packs the hardware identification register   *)
(* into a compute-unit identity.                                            *)
(***************************************************************************)
EXTENDS Integers, Sequences, FiniteSets, TLC

(***************************************************************************)
(* Program constants (latency.cpp:6-9).                                    *)
(***************************************************************************)
NUM_SM == 120
BLOCK_SIZE == 64
S_SIZE == ((8 * 1024) * 1024) \div 16
ITERATION == 5

(***************************************************************************)
(* Bounds of the model.  The grid and the group are scaled down to         *)
(* MaxGroups groups of MaxBlock threads; unsigned int is UIntBits wide and *)
(* the free-running cycle counter one bit wider; the device of the run has *)
(* the compute units 0..MaxCuId of shader engine 0.                        *)
(***************************************************************************)
MaxGroups == 2
MaxBlock == 2
UIntBits == 2
MaxCuId == 1

Min(a, b) == IF a < b THEN a ELSE b

GridDim == Min(NUM_SM, MaxGroups)
BlockDim == Min(BLOCK_SIZE, MaxBlock)
Groups == 1 .. GridDim
Threads == 0 .. (BlockDim - 1)
UIntMod == 2 ^ UIntBits
ClockMod == 2 * UIntMod
\* what a first read of the free-running counter may return: a value from
\* which the second read stays below 2^UIntBits, and one from which it wraps
ClockReadings == {0, UIntMod - 1}
\* the cycles that pass between the two reads of one timed block
Elapsed == {1}

(***************************************************************************)
(* Bit operations of the device code: x << n, x | y, and the field read of *)
(* s_getreg (SIZE bits from bit OFFSET of a hardware register).            *)
(***************************************************************************)
Shl(x, n) == x * (2 ^ n)

RECURSIVE BitOr(_, _)
BitOr(a, b) ==
    IF a = 0 THEN b
    ELSE IF b = 0 THEN a
    ELSE (IF (a % 2 = 1) \/ (b % 2 = 1) THEN 1 ELSE 0)
         + 2 * BitOr(a \div 2, b \div 2)

GetReg(reg, size, offset) == (reg \div (2 ^ offset)) % (2 ^ size)

(***************************************************************************)
(* Build-time architecture variants: the macro sets the #if chains of      *)
(* latency.cpp:51-87 distinguish.                                           *)
(***************************************************************************)
Archs == {"gfx10", "gfx10cu", "gfx11", "gfx11cu", "gfx940", "gfx908", "gcn"}

IsGFX10(arch) == arch \in {"gfx10", "gfx10cu"}
IsGFX11(arch) == arch \in {"gfx11", "gfx11cu"}
IsRDNA(arch) == IsGFX10(arch) \/ IsGFX11(arch)
IsCUMODE(arch) == arch \in {"gfx10cu", "gfx11cu"}
IsGfx94x(arch) == arch = "gfx940"
IsGfx908or90a(arch) == arch = "gfx908"

HW_ID_WGP_ID_SIZE == 4
HW_ID_WGP_ID_OFFSET == 10
HW_ID_CU_ID_SIZE(arch) == IF IsRDNA(arch) THEN 1 ELSE 4
HW_ID_CU_ID_OFFSET == 8
HW_ID_SE_ID_SIZE(arch) ==
    IF IsGfx908or90a(arch) \/ IsGFX11(arch) THEN 3 ELSE 2
HW_ID_SE_ID_OFFSET(arch) == IF IsRDNA(arch) THEN 18 ELSE 13
HW_ID_SA_ID_OFFSET == 16
HW_ID_SA_ID_SIZE == 1
XCC_ID_XCC_ID_SIZE == 4
XCC_ID_XCC_ID_OFFSET == 0

(***************************************************************************)
(* The hardware registers a wave reads.  A register file is built from the *)
(* placement fields of the wave (f) and the bits of the unrelated fields   *)
(* (wave, SIMD, pipe, ... : junk), following the bit structure documented  *)
(* in latency.cpp:23-49.                                                    *)
(***************************************************************************)
Pow2Range(size) == 0 .. ((2 ^ size) - 1)

FieldCombos(arch) ==
    [se  : Pow2Range(HW_ID_SE_ID_SIZE(arch)),
     sa  : IF IsRDNA(arch) THEN Pow2Range(HW_ID_SA_ID_SIZE) ELSE {0},
     wgp : IF IsRDNA(arch) THEN Pow2Range(HW_ID_WGP_ID_SIZE) ELSE {0},
     cu  : IF IsRDNA(arch) /\ ~IsCUMODE(arch) THEN {0}
           ELSE Pow2Range(HW_ID_CU_ID_SIZE(arch)),
     xcc : IF IsGfx94x(arch) THEN Pow2Range(XCC_ID_XCC_ID_SIZE) ELSE {0}]

\* bits of HW_ID that belong to none of the fields __smid reads
JunkBits(arch) ==
    IF IsRDNA(arch)
    THEN {0, 31 + 512 + (IF IsCUMODE(arch) THEN 0 ELSE 256)}
    ELSE {0, 255 + 4096}

HwRegs(arch, f, junk) ==
    [hw_id |->
        IF IsRDNA(arch)
        THEN Shl(f.se, 18) + Shl(f.sa, 16) + Shl(f.wgp, 10) + Shl(f.cu, 8) + junk
        ELSE Shl(f.se, 13) + Shl(f.cu, 8) + junk,
     xcc_id |-> f.xcc]

(***************************************************************************)
(* __smid (latency.cpp:109-149), one operator per packing branch.          *)
(***************************************************************************)
\* fault variant: the WGP field shifted in by one bit too few
SmidRDNA_ShiftBug(arch, se_id, sa_id, wgp_id, cu_id) ==
    LET t1 == BitOr(Shl(se_id, HW_ID_SA_ID_SIZE), sa_id)
        t2 == BitOr(Shl(t1, HW_ID_WGP_ID_SIZE - 1), wgp_id)
    IN  IF IsCUMODE(arch) THEN BitOr(Shl(t2, HW_ID_CU_ID_SIZE(arch)), cu_id)
        ELSE t2

SmidRDNA(arch, se_id, sa_id, wgp_id, cu_id) ==
    LET t1 == BitOr(Shl(se_id, HW_ID_SA_ID_SIZE), sa_id)
        t2 == BitOr(Shl(t1, HW_ID_WGP_ID_SIZE), wgp_id)
    IN  IF IsCUMODE(arch) THEN BitOr(Shl(t2, HW_ID_CU_ID_SIZE(arch)), cu_id)
        ELSE t2

SmidGfx94x(arch, se_id, cu_id, xcc_id) ==
    LET t1 == BitOr(Shl(xcc_id, HW_ID_SE_ID_SIZE(arch)), se_id)
    IN  BitOr(Shl(t1, HW_ID_CU_ID_SIZE(arch)), cu_id)

SmidGcn(arch, se_id, cu_id) == Shl(se_id, HW_ID_CU_ID_SIZE(arch)) + cu_id

__smid(arch, regs) ==
    LET se_id == GetReg(regs.hw_id, HW_ID_SE_ID_SIZE(arch), HW_ID_SE_ID_OFFSET(arch))
        wgp_id == GetReg(regs.hw_id, HW_ID_WGP_ID_SIZE, HW_ID_WGP_ID_OFFSET)
        sa_id == GetReg(regs.hw_id, HW_ID_SA_ID_SIZE, HW_ID_SA_ID_OFFSET)
        cu_id == GetReg(regs.hw_id, HW_ID_CU_ID_SIZE(arch), HW_ID_CU_ID_OFFSET)
        xcc_id == GetReg(regs.xcc_id, XCC_ID_XCC_ID_SIZE, XCC_ID_XCC_ID_OFFSET)
    IN  IF IsRDNA(arch) THEN SmidRDNA(arch, se_id, sa_id, wgp_id, cu_id)
        ELSE IF IsGfx94x(arch) THEN SmidGfx94x(arch, se_id, cu_id, xcc_id)
        ELSE SmidGcn(arch, se_id, cu_id)

\* the kernel's locator call (latency.cpp:153)
get_smid(arch, regs) == __smid(arch, regs)

(***************************************************************************)
(* atoi (latency.cpp:183-184) on an argument given as its characters:      *)
(* leading blanks, an optional sign, then the decimal digits up to the     *)
(* first other character; 0 when there are no digits.                      *)
(***************************************************************************)
DigitChars == <<"0", "1", "2", "3", "4", "5", "6", "7", "8", "9">>
IsDigit(c) == \E d \in 1 .. 10 : DigitChars[d] = c
DigitVal(c) == (CHOOSE d \in 1 .. 10 : DigitChars[d] = c) - 1

RECURSIVE AtoiFrom(_, _)
AtoiFrom(s, acc) ==
    IF s = <<>> \/ ~IsDigit(Head(s)) THEN acc
    ELSE AtoiFrom(Tail(s), 10 * acc + DigitVal(Head(s)))

RECURSIVE SkipBlanks(_)
SkipBlanks(s) == IF s # <<>> /\ Head(s) = " " THEN SkipBlanks(Tail(s)) ELSE s

atoi(s) ==
    LET t == SkipBlanks(s)
    IN  IF t = <<>> THEN 0
        ELSE IF Head(t) = "-" THEN 0 - AtoiFrom(Tail(t), 0)
        ELSE IF Head(t) = "+" THEN AtoiFrom(Tail(t), 0)
        ELSE AtoiFrom(t, 0)

\* fault variant: the scaling by 64 left out
StartIdxOf_Unscaled(arg) == atoi(arg)

\* start_idx = atoi(argv[1])*64 (latency.cpp:183)
StartIdxOf(arg) == atoi(arg) * 64

(***************************************************************************)
(* State.                                                                   *)
(*   arch, argv        the build variant and the two program arguments      *)
(*   pc, proc,         main's position (the source line it is about to      *)
(*   exit_status       execute), whether the process runs, its exit status  *)
(*   start_idx,        main's locals                                        *)
(*   sm_chosen                                                              *)
(*   device, lastError the HIP runtime: the current device, the last error  *)
(*   h_arr, d_a0, d_a1 the host staging buffer and the two device buffers   *)
(*   out               standard output, a sequence of lines                 *)
(*   gpc, sm_id, active, it, start, tmp, latency                            *)
(*                     per execution group of kernel k: its position, the   *)
(*                     locator's result, the lanes inside the if, and the   *)
(*                     locals i, start, the sum being stored, latency       *)
(*   cycles            per group, the free-running cycle counter as the   *)
(*                     group last read it                                   *)
(*   hw, smid_ret      a wave probing __smid: its placement (the fields and *)
(*                     the other bits of its registers) and the result      *)
(***************************************************************************)
VARIABLES arch, argv, pc, proc, exit_status, start_idx, sm_chosen,
          device, lastError, h_arr, d_a0, d_a1, out,
          gpc, sm_id, active, it, start, tmp, latency, cycles,
          hw, smid_ret

hostVars == <<pc, proc, exit_status, start_idx, sm_chosen, device, lastError, h_arr>>
kernVars == <<gpc, sm_id, active, it, start, tmp, latency, cycles>>
probeVars == <<hw, smid_ret>>
vars == <<arch, argv, hostVars, d_a0, d_a1, out, kernVars, probeVars>>

NoData == <<>>

\* a device buffer: element i holds delta[i] when the kernel stored to it, and
\* otherwise the value the host copied there (h_arr[i] = i)
Elem(buf, i) == IF i \in DOMAIN buf.delta THEN buf.delta[i] ELSE i

Stored(buf, i, v) ==
    [buf EXCEPT !.delta = [j \in (DOMAIN buf.delta) \cup {i} |->
                              IF j = i THEN v ELSE buf.delta[j]]]

\* an index inside a buffer of S_SIZE elements.  The kernel takes start_idx
\* as an unsigned int: a negative int arrives as a value of 2^31 or more,
\* which is outside the buffer like the negative value itself
InBounds(i) == 0 <= i /\ i < S_SIZE

\* the compute units of the device of the run
DeviceFields ==
    {f \in FieldCombos(arch) :
        f.se = 0 /\ f.sa = 0 /\ f.wgp = 0 /\ f.xcc = 0 /\ f.cu <= MaxCuId}

DeviceIds == {get_smid(arch, HwRegs(arch, f, 0)) : f \in DeviceFields}

\* the program arguments of a run within the caller contract of the program
\* (a start-index unit whose element offset lies in the buffers)
LegalArgv1 == {<<"0">>, <<"8", "1", "9", "1">>}
AnyArgv1 == {<<" ", "8", "1", "9", "1", "x">>, <<"8", "1", "9", "2">>, <<"-", "1">>}
Argv2 == {<<"0">>, <<"1">>, <<"1", "6">>}

Placements(a) == [f : FieldCombos(a), junk : JunkBits(a)]

InitWith(archs, argv1s, argv2s, probed) ==
    /\ arch \in archs
    /\ argv \in [a1 : argv1s, a2 : argv2s]
    /\ hw \in IF probed THEN Placements(arch)
              ELSE {p \in Placements(arch) :
                      p.junk = 0 /\ p.f.se = 0 /\ p.f.sa = 0 /\ p.f.wgp = 0
                      /\ p.f.cu = 0 /\ p.f.xcc = 0}
    /\ smid_ret = -1
    /\ pc = "L182"
    /\ proc = "running"
    /\ exit_status = -1
    /\ start_idx = 0
    /\ sm_chosen = 0
    /\ device = "unset"
    /\ lastError = "hipSuccess"
    /\ h_arr = [st |-> "null", data |-> "uninit"]
    /\ d_a0 = [st |-> "none", data |-> "uninit", delta |-> NoData]
    /\ d_a1 = [st |-> "none", data |-> "uninit", delta |-> NoData]
    /\ out = <<>>
    /\ gpc = [g \in Groups |-> "idle"]
    /\ sm_id = [g \in Groups |-> 0]
    /\ active = [g \in Groups |-> {}]
    /\ it = [g \in Groups |-> 0]
    /\ start = [g \in Groups |-> 0]
    /\ tmp = [g \in Groups |-> 0]
    /\ latency = [g \in Groups |-> 0]
    /\ cycles = [g \in Groups |-> 0]

Init == InitWith({"gfx908"}, LegalArgv1, Argv2, FALSE)

(***************************************************************************)
(* main (latency.cpp:177-213).                                              *)
(***************************************************************************)
Running(l) == proc = "running" /\ pc = l

\* hipSetDevice(0); its result is not checked (latency.cpp:182)
HipSetDevice ==
    /\ Running("L182")
    /\ \E ok \in BOOLEAN :
         /\ device' = IF ok THEN "ok" ELSE "none"
         /\ lastError' = IF ok THEN lastError ELSE "hipErrorNoDevice"
    /\ pc' = "L183"
    /\ UNCHANGED <<arch, argv, proc, exit_status, start_idx, sm_chosen, h_arr,
                   d_a0, d_a1, out, kernVars, probeVars>>

\* latency.cpp:183-184
ParseArgs ==
    /\ Running("L183")
    /\ start_idx' = StartIdxOf(argv.a1)
    /\ sm_chosen' = atoi(argv.a2)
    /\ pc' = "L186"
    /\ UNCHANGED <<arch, argv, proc, exit_status, device, lastError, h_arr,
                   d_a0, d_a1, out, kernVars, probeVars>>

\* latency.cpp:186
MallocHost ==
    /\ Running("L186")
    /\ h_arr' = [st |-> "alloc", data |-> "uninit"]
    /\ pc' = "L188"
    /\ UNCHANGED <<arch, argv, proc, exit_status, start_idx, sm_chosen, device,
                   lastError, d_a0, d_a1, out, kernVars, probeVars>>

\* hipMalloc of d_a0 (latency.cpp:188) and of d_a1 (latency.cpp:190)
HipMalloc(l, next) ==
    /\ Running(l)
    /\ \E ok \in BOOLEAN :
         /\ ok => device = "ok"
         /\ lastError' = IF ok THEN lastError ELSE "hipErrorOutOfMemory"
         /\ LET b == IF ok THEN [st |-> "alloc", data |-> "uninit", delta |-> NoData]
                     ELSE [st |-> "none", data |-> "uninit", delta |-> NoData]
            IN  IF l = "L188" THEN d_a0' = b /\ d_a1' = d_a1
                ELSE d_a1' = b /\ d_a0' = d_a0
    /\ pc' = next
    /\ UNCHANGED <<arch, argv, proc, exit_status, start_idx, sm_chosen, device,
                   h_arr, out, kernVars, probeVars>>

\* the loop of latency.cpp:193-195
FillHost ==
    /\ Running("L193")
    /\ h_arr' = [h_arr EXCEPT !.data = "identity"]
    /\ pc' = "L197"
    /\ UNCHANGED <<arch, argv, proc, exit_status, start_idx, sm_chosen, device,
                   lastError, d_a0, d_a1, out, kernVars, probeVars>>

\* hipMemcpy to d_a0 (latency.cpp:197) and to d_a1 (latency.cpp:199)
HipMemcpy(l, next) ==
    /\ Running(l)
    /\ \E ok \in BOOLEAN :
         /\ lastError' = IF ok THEN lastError ELSE "hipErrorInvalidValue"
         /\ IF l = "L197"
            THEN /\ d_a0' = IF ok THEN [d_a0 EXCEPT !.data = h_arr.data] ELSE d_a0
                 /\ d_a1' = d_a1
            ELSE /\ d_a1' = IF ok THEN [d_a1 EXCEPT !.data = h_arr.data] ELSE d_a1
                 /\ d_a0' = d_a0
    /\ pc' = next
    /\ UNCHANGED <<arch, argv, proc, exit_status, start_idx, sm_chosen, device,
                   h_arr, out, kernVars, probeVars>>

(***************************************************************************)
(* hipCheckError (latency.cpp:13-19): hipGetLastError returns the last     *)
(* error and resets it; on an error one line is printed and exit(0) ends   *)
(* the process, and with it every group still running on the device.       *)
(***************************************************************************)
\* fault variant: the error test never fires
HipCheckFails_Never(e) == FALSE

HipCheckFails(e) == e # "hipSuccess"

\* fault variant: a failure reported in the exit status
ExitArg_Nonzero(e) == IF e = "hipSuccess" THEN 0 ELSE 1

\* the argument of exit in hipCheckError (latency.cpp:17)
ExitArg(e) == 0

HipCheckError(l, next) ==
    /\ Running(l)
    /\ lastError' = "hipSuccess"
    /\ IF HipCheckFails(lastError)
       THEN /\ out' = Append(out, [kind |-> "error", line |-> l, msg |-> lastError])
            /\ proc' = "exited"
            /\ exit_status' = ExitArg(lastError)
            /\ pc' = pc
       ELSE /\ pc' = next
            /\ UNCHANGED <<out, proc, exit_status>>
    /\ UNCHANGED <<arch, argv, start_idx, sm_chosen, device, h_arr,
                   d_a0, d_a1, kernVars, probeVars>>

\* k<<<NUM_SM, BLOCK_SIZE>>>(d_a0,d_a1,start_idx,sm_chosen) (latency.cpp:202):
\* the launch returns at once; the groups then run beside the host
Launch ==
    /\ Running("L202")
    /\ \E ok \in BOOLEAN :
         /\ lastError' = IF ok THEN lastError ELSE "hipErrorLaunchFailure"
         /\ gpc' = IF ok THEN [g \in Groups |-> "entry"] ELSE gpc
    /\ pc' = "L203"
    /\ UNCHANGED <<arch, argv, proc, exit_status, start_idx, sm_chosen, device,
                   h_arr, d_a0, d_a1, out, sm_id, active, it, start, tmp,
                   latency, cycles, probeVars>>

\* fault variant: a synchronization that does not wait
AllRetired_NoWait == TRUE

\* what a successful hipDeviceSynchronize has waited for
AllRetired == \A g \in Groups : gpc[g] \in {"idle", "retired"}

\* hipDeviceSynchronize (latency.cpp:204): returns success once every group has
\* retired, or an error of the device
HipDeviceSynchronize ==
    /\ Running("L204")
    /\ \/ AllRetired /\ lastError' = lastError
       \/ lastError' = "hipErrorUnknown"
    /\ pc' = "L205"
    /\ UNCHANGED <<arch, argv, proc, exit_status, start_idx, sm_chosen, device,
                   h_arr, d_a0, d_a1, out, kernVars, probeVars>>

\* free(h_arr) (latency.cpp:208)
FreeHost ==
    /\ Running("L208")
    /\ h_arr' = [h_arr EXCEPT !.st = "freed"]
    /\ pc' = "L209"
    /\ UNCHANGED <<arch, argv, proc, exit_status, start_idx, sm_chosen, device,
                   lastError, d_a0, d_a1, out, kernVars, probeVars>>

\* hipFree(d_a0) (latency.cpp:209) and hipFree(d_a1) (latency.cpp:210)
HipFree(l, next) ==
    /\ Running(l)
    /\ IF l = "L209"
       THEN d_a0' = [d_a0 EXCEPT !.st = "freed"] /\ d_a1' = d_a1
       ELSE d_a1' = [d_a1 EXCEPT !.st = "freed"] /\ d_a0' = d_a0
    /\ pc' = next
    /\ UNCHANGED <<arch, argv, proc, exit_status, start_idx, sm_chosen, device,
                   lastError, h_arr, out, kernVars, probeVars>>

\* return 0 (latency.cpp:212)
Return ==
    /\ Running("L212")
    /\ proc' = "exited"
    /\ exit_status' = 0
    /\ UNCHANGED <<arch, argv, pc, start_idx, sm_chosen, device, lastError,
                   h_arr, d_a0, d_a1, out, kernVars, probeVars>>

Host ==
    \/ HipSetDevice
    \/ ParseArgs
    \/ MallocHost
    \/ HipMalloc("L188", "L189")
    \/ HipCheckError("L189", "L190")
    \/ HipMalloc("L190", "L191")
    \/ HipCheckError("L191", "L193")
    \/ FillHost
    \/ HipMemcpy("L197", "L198")
    \/ HipCheckError("L198", "L199")
    \/ HipMemcpy("L199", "L200")
    \/ HipCheckError("L200", "L202")
    \/ Launch
    \/ HipCheckError("L203", "L204")
    \/ HipDeviceSynchronize
    \/ HipCheckError("L205", "L208")
    \/ FreeHost
    \/ HipFree("L209", "L210")
    \/ HipFree("L210", "L212")
    \/ Return

(***************************************************************************)
(* Kernel k (latency.cpp:151-175).  The threads of a group run in lockstep: *)
(* a step of the group is a step of each of its lanes inside the if.       *)
(***************************************************************************)
\* fault variants: the leader test left out; the identity test left out
KernelCond_AnyLane(id, chosen, tid) == id = chosen

KernelCond_AnyUnit(id, chosen, tid) == tid = 0

\* sm_id == sm_chosen && threadIdx.x == 0 (latency.cpp:156)
KernelCond(id, chosen, tid) == id = chosen /\ tid = 0

\* fault variant: one iteration too many
LoopCond_OneMore(i) == i <= ITERATION

\* i < ITERATION (latency.cpp:159)
LoopCond(i) == i < ITERATION

\* fault variant: the difference of the truncated readings, not reduced
\* to an unsigned int
Latency_Signed(after, before) == (after % UIntMod) - before

\* latency = clock() - start, an unsigned int (latency.cpp:166)
Latency(after, before) == (after - before) % UIntMod

\* fault variant: the store goes to the next element
StoreIndex_Next(idx) == idx + 1

\* the element of a0 the kernel stores to (latency.cpp:164)
StoreIndex(idx) == idx

GroupRuns(g, at) == proc = "running" /\ gpc[g] = at

\* latency.cpp:153-159: the locator call, the test, the first loop test
GroupEntry(g) ==
    /\ GroupRuns(g, "entry")
    /\ \E f \in DeviceFields :
         LET id == get_smid(arch, HwRegs(arch, f, 0))
             lanes == {t \in Threads : KernelCond(id, sm_chosen, t)}
         IN  /\ sm_id' = [sm_id EXCEPT ![g] = id]
             /\ active' = [active EXCEPT ![g] = lanes]
             /\ it' = [it EXCEPT ![g] = 0]
             /\ gpc' = [gpc EXCEPT ![g] =
                          IF lanes # {} /\ LoopCond(0) THEN "clock1" ELSE "retired"]
    /\ UNCHANGED <<arch, argv, hostVars, d_a0, d_a1, out, start, tmp, latency,
                   cycles, probeVars>>

\* start = clock() (latency.cpp:162)
Clock1(g) ==
    /\ GroupRuns(g, "clock1")
    /\ \E c \in ClockReadings :
         /\ cycles' = [cycles EXCEPT ![g] = c]
         /\ start' = [start EXCEPT ![g] = c % UIntMod]
    /\ gpc' = [gpc EXCEPT ![g] = "load"]
    /\ UNCHANGED <<arch, argv, hostVars, d_a0, d_a1, out, sm_id, active, it, tmp,
                   latency, probeVars>>

\* a0[start_idx] += a1[0] (latency.cpp:164): the two loads and the addition
Load(g) ==
    /\ GroupRuns(g, "load")
    /\ InBounds(start_idx)
    /\ tmp' = [tmp EXCEPT ![g] = Elem(d_a0, start_idx) + Elem(d_a1, 0)]
    /\ gpc' = [gpc EXCEPT ![g] = "store"]
    /\ UNCHANGED <<arch, argv, hostVars, d_a0, d_a1, out, sm_id, active, it, start,
                   latency, cycles, probeVars>>

\* a0[start_idx] += a1[0] (latency.cpp:164): the store
Store(g) ==
    /\ GroupRuns(g, "store")
    /\ d_a0' = Stored(d_a0, StoreIndex(start_idx), tmp[g])
    /\ gpc' = [gpc EXCEPT ![g] = "clock2"]
    /\ UNCHANGED <<arch, argv, hostVars, d_a1, out, sm_id, active, it, start, tmp,
                   latency, cycles, probeVars>>

\* latency = clock() - start (latency.cpp:166)
Clock2(g) ==
    /\ GroupRuns(g, "clock2")
    /\ \E d \in Elapsed :
         /\ cycles' = [cycles EXCEPT ![g] = (cycles[g] + d) % ClockMod]
         /\ latency' = [latency EXCEPT ![g] = Latency(cycles'[g], start[g])]
    /\ gpc' = [gpc EXCEPT ![g] = "print"]
    /\ UNCHANGED <<arch, argv, hostVars, d_a0, d_a1, out, sm_id, active, it, start,
                   tmp, probeVars>>

Lines(n, l) == [j \in 1 .. n |-> l]

\* printf("%u\n",latency), i ++ and the loop test (latency.cpp:168, 159)
Printf(g) ==
    /\ GroupRuns(g, "print")
    /\ out' = out \o Lines(Cardinality(active[g]),
                           [kind |-> "sample", val |-> latency[g]])
    /\ it' = [it EXCEPT ![g] = it[g] + 1]
    /\ gpc' = [gpc EXCEPT ![g] = IF LoopCond(it[g] + 1) THEN "clock1" ELSE "retired"]
    /\ UNCHANGED <<arch, argv, hostVars, d_a0, d_a1, sm_id, active, start, tmp,
                   latency, cycles, probeVars>>

Kernel ==
    \E g \in Groups :
        \/ GroupEntry(g)
        \/ Clock1(g)
        \/ Load(g)
        \/ Store(g)
        \/ Clock2(g)
        \/ Printf(g)

Next == Host \/ Kernel

Spec == Init /\ [][Next]_vars

(***************************************************************************)
(* Runs with arguments outside the caller contract: a start index past the *)
(* end of the buffers.  The access a0[start_idx] is then undefined: the    *)
(* device faults and aborts the kernel, or the access lands in the memory  *)
(* behind d_a0, which is d_a1 when the two allocations are adjacent.       *)
(***************************************************************************)
OobFault(g) ==
    /\ GroupRuns(g, "load")
    /\ ~InBounds(start_idx)
    /\ gpc' = [h \in Groups |-> IF gpc[h] = "retired" THEN "retired" ELSE "aborted"]
    /\ UNCHANGED <<arch, argv, hostVars, d_a0, d_a1, out, sm_id, active, it, start,
                   tmp, latency, cycles, probeVars>>

OobLoad(g) ==
    /\ GroupRuns(g, "load")
    /\ ~InBounds(start_idx)
    /\ \E v \in {0} \cup (IF InBounds(start_idx - S_SIZE)
                          THEN {Elem(d_a1, start_idx - S_SIZE)} ELSE {}) :
         tmp' = [tmp EXCEPT ![g] = v + Elem(d_a1, 0)]
    /\ gpc' = [gpc EXCEPT ![g] = "oobstore"]
    /\ UNCHANGED <<arch, argv, hostVars, d_a0, d_a1, out, sm_id, active, it, start,
                   latency, cycles, probeVars>>

OobStore(g) ==
    /\ GroupRuns(g, "oobstore")
    /\ \/ /\ InBounds(start_idx - S_SIZE)
          /\ d_a1' = Stored(d_a1, start_idx - S_SIZE, tmp[g])
       \/ d_a1' = d_a1
    /\ gpc' = [gpc EXCEPT ![g] = "clock2"]
    /\ UNCHANGED <<arch, argv, hostVars, d_a0, out, sm_id, active, it, start, tmp,
                   latency, cycles, probeVars>>

InitArgs == InitWith({"gfx908"}, AnyArgv1, {<<"0">>}, FALSE)

NextArgs ==
    \/ Next
    \/ \E g \in Groups : OobFault(g) \/ OobLoad(g) \/ OobStore(g)

SpecArgs == InitArgs /\ [][NextArgs]_vars

(***************************************************************************)
(* __smid on its own: a wave placed anywhere, in every build variant,     *)
(* calls the routine.                                                       *)
(***************************************************************************)
InitSmid == InitWith(Archs, {<<"0">>}, {<<"0">>}, TRUE)

SmidProbe ==
    /\ smid_ret = -1
    /\ smid_ret' = __smid(arch, HwRegs(arch, hw.f, hw.junk))
    /\ UNCHANGED <<arch, argv, hostVars, d_a0, d_a1, out, kernVars, hw>>

NextSmid == SmidProbe

SpecSmid == InitSmid /\ [][NextSmid]_vars

(***************************************************************************)
(* Vocabulary of the properties.                                            *)
(***************************************************************************)
Samples == SelectSeq(out, LAMBDA l : l.kind = "sample")
ErrorLines == SelectSeq(out, LAMBDA l : l.kind = "error")

Launched == \E g \in Groups : gpc[g] # "idle"
Entered(g) == gpc[g] \notin {"idle", "entry"}
AllEntered == \A g \in Groups : Entered(g)
\* the groups whose locator identity equals the target
Matched == {g \in Groups : Entered(g) /\ sm_id[g] = sm_chosen}
\* a group inside the timed block
Timed(g) == gpc[g] \in {"clock1", "load", "store", "clock2", "print"}
Parsed == pc \notin {"L182", "L183"}
NormalExit == proc = "exited" /\ pc = "L212"

\* the lines printed so far by the lanes inside the if of groups 1 .. n
RECURSIVE PrintedBy(_)
PrintedBy(n) ==
    IF n = 0 THEN 0 ELSE it[n] * Cardinality(active[n]) + PrintedBy(n - 1)

C3_OneSamplePerIteration ==
    \A g \in Groups :
        (AllEntered /\ Matched = {g}) =>
            /\ Len(Samples) = it[g]
            /\ it[g] <= ITERATION
            /\ gpc[g] = "retired" => it[g] = ITERATION
            /\ (it[g] > 0 /\ gpc[g] \in {"clock1", "retired"}) =>
                  Samples[it[g]].val = (cycles[g] - start[g]) % UIntMod

C3_Witness ==
    \E g \in Groups :
        /\ AllEntered /\ Matched = {g}
        /\ gpc[g] = "retired"
        /\ Len(Samples) = ITERATION

(***************************************************************************)
(* C4: when no launched group has the target's identity, no line is       *)
(* emitted, no element of a0 is stored to, every group retires at once, so *)
(* that the synchronization has nothing left to wait for, and the host can *)
(* always take its next step up to the normal exit.                        *)
(***************************************************************************)
C4_NoMatchNoEffect ==
    (Launched /\ \A g \in Groups : Entered(g) => sm_id[g] # sm_chosen) =>
        /\ Samples = <<>>
        /\ d_a0.delta = NoData
        /\ \A g \in Groups : Entered(g) => gpc[g] = "retired"
        /\ (AllEntered /\ Running("L204")) => \A g \in Groups : gpc[g] = "retired"
        /\ proc = "running" => ENABLED Next
        /\ NormalExit => out = <<>>

C4_Witness ==
    /\ NormalExit
    /\ AllEntered
    /\ Matched = {}
    /\ sm_chosen \notin DeviceIds
    /\ exit_status = 0

(***************************************************************************)
(* C5: the lanes outside the if store nothing and print nothing: the only  *)
(* lane ever inside is lane 0 of a group with the target's identity, the   *)
(* samples are those of the lanes inside, no element of a0 other than      *)
(* a0[start_idx] is stored to, no element of a1 is stored to, and both     *)
(* buffers hold the identity sequence everywhere else.                     *)
(***************************************************************************)
C5_Frame ==
    /\ \A g \in Groups :
          active[g] \subseteq {t \in Threads : sm_id[g] = sm_chosen /\ t = 0}
    /\ Len(Samples) = PrintedBy(GridDim)
    /\ DOMAIN d_a0.delta \subseteq {start_idx}
    /\ d_a1.delta = NoData
    /\ Launched => d_a0.data = "identity" /\ d_a1.data = "identity"
    /\ \A i \in {0, 1, start_idx + 1, S_SIZE - 1} \ {start_idx} :
          Launched => Elem(d_a0, i) = i /\ Elem(d_a1, i) = i

C5_Witness ==
    /\ NormalExit
    /\ DOMAIN d_a0.delta = {start_idx}
    /\ \E g \in Groups : sm_id[g] # sm_chosen /\ gpc[g] = "retired"
    /\ \E g \in Groups : sm_id[g] = sm_chosen /\ gpc[g] = "retired"

C7_SmidInjective ==
    smid_ret # -1 =>
        \A p \in Placements(arch) :
            __smid(arch, HwRegs(arch, p.f, p.junk)) = smid_ret => p.f = hw.f

C7_Witness ==
    /\ smid_ret # -1
    /\ arch = "gfx11cu"
    /\ hw.f.se = 7 /\ hw.f.sa = 1 /\ hw.f.wgp = 15 /\ hw.f.cu = 1
    /\ hw.junk # 0

(***************************************************************************)
(* C8: a failed device operation is detected by the check that follows it: *)
(* one error line is printed, it is the last line of the output, and the   *)
(* process has exited at that check; nothing after the failed operation    *)
(* has run (no later allocation or copy, no launch, no free), and main is  *)
(* never past a check whose operation failed.                              *)
(***************************************************************************)
PcOrder == <<"L182", "L183", "L186", "L188", "L189", "L190", "L191", "L193",
             "L197", "L198", "L199", "L200", "L202", "L203", "L204", "L205",
             "L208", "L209", "L210", "L212">>
Pos(l) == CHOOSE n \in 1 .. Len(PcOrder) : PcOrder[n] = l
CheckLines == {"L189", "L191", "L198", "L200", "L203", "L205"}

C8_FailStop ==
    /\ Len(ErrorLines) <= 1
    /\ ErrorLines # <<>> =>
          /\ proc = "exited"
          /\ out[Len(out)].kind = "error"
          /\ out[Len(out)].line = pc
          /\ pc \in CheckLines
          /\ h_arr.st # "freed" /\ d_a0.st # "freed" /\ d_a1.st # "freed"
          /\ pc # "L205" => ~Launched /\ Samples = <<>>
          /\ pc = "L189" => d_a0.st = "none" /\ d_a1.st = "none"
          /\ pc = "L191" => d_a1.st = "none"
          /\ pc \in {"L189", "L191"} => d_a0.data = "uninit" /\ d_a1.data = "uninit"
          /\ pc = "L198" => d_a0.data = "uninit" /\ d_a1.data = "uninit"
          /\ pc = "L200" => d_a1.data = "uninit"
    /\ lastError # "hipSuccess" =>
          \/ pc \in CheckLines
          \/ lastError = "hipErrorNoDevice" /\ pc \in {"L183", "L186", "L188"}
    /\ Pos(pc) > Pos("L189") => d_a0.st # "none"
    /\ Pos(pc) > Pos("L191") => d_a1.st # "none"
    /\ Pos(pc) > Pos("L198") => d_a0.data = "identity"
    /\ Pos(pc) > Pos("L200") => d_a1.data = "identity"
    /\ Pos(pc) > Pos("L203") => Launched
    /\ Launched =>
          /\ d_a0.st # "none" /\ d_a1.st # "none"
          /\ d_a0.data = "identity" /\ d_a1.data = "identity"

C8_Witness ==
    /\ proc = "exited"
    /\ pc = "L200"
    /\ Len(out) = 1 /\ out[1].kind = "error" /\ out[1].line = "L200"
    /\ ~Launched

(***************************************************************************)
(* C9: the process ends with exit status 0, on the failure path of         *)
(* hipCheckError as on the normal return of main.                          *)
(***************************************************************************)
C9_ExitStatusZero ==
    /\ proc = "exited" => exit_status = 0
    /\ proc = "running" => exit_status = -1

C9_Witness == proc = "exited" /\ ErrorLines # <<>> /\ exit_status = 0

(***************************************************************************)
(* C10: the kernel runs only with both device buffers allocated and filled *)
(* with the identity sequence; while any group has not retired the host    *)
(* frees nothing; after a normal return the staging buffer and both device *)
(* buffers are freed.                                                       *)
(***************************************************************************)
C10_Lifecycle ==
    /\ Launched =>
          /\ h_arr.data = "identity"
          /\ d_a0.data = "identity" /\ d_a1.data = "identity"
          /\ d_a0.st # "none" /\ d_a1.st # "none"
    /\ (\E g \in Groups : gpc[g] \notin {"idle", "retired"}) =>
          h_arr.st = "alloc" /\ d_a0.st = "alloc" /\ d_a1.st = "alloc"
    /\ (h_arr.st = "freed" \/ d_a0.st = "freed" \/ d_a1.st = "freed") =>
          \A g \in Groups : gpc[g] = "retired"
    /\ NormalExit =>
          h_arr.st = "freed" /\ d_a0.st = "freed" /\ d_a1.st = "freed"

C10_Witness ==
    /\ NormalExit
    /\ Samples # <<>>
    /\ d_a0.st = "freed" /\ d_a1.st = "freed" /\ h_arr.st = "freed"

====
